---------------------------- MODULE Spec2Model ----------------------------
(***************************************************************************)
(* Model of scaleway/helpers_instance.go: the helpers of the instance      *)
(* resources (power state changes, volume map reshaping, local volume size *)
(* validation, private NIC attach/detach, snapshot lookup, reverse DNS     *)
(* retry).                                                                 *)
(*                                                                         *)
(* Each helper has its own variables and its own specification (SpecReach, *)
(* SpecRetry, ...); a specification keeps the other helpers parked.        *)
(***************************************************************************)
EXTENDS Integers, Sequences, FiniteSets, TLC

VARIABLES
    \* reachState and the server it drives
    srvState,       \* the server's state at the API
    srvVolumes,     \* the server's volumes: volume id -> volume state
    rsPc,           \* position in reachState: idle, volumes, actions, done
    rsTo,           \* argument toState
    rsFrom,         \* local fromState
    rsVolsLeft,     \* volumes of the response still to be waited for
    rsActions,      \* actions of the transition still to be issued
    rsIssued,       \* actions the API accepted and completed, in order
    rsSdkErr,       \* the error of the SDK call that failed, if any
    rsErr,          \* the value reachState returned
    \* retryUpdateReverseDNS
    ruPc,           \* position: idle, select, interval, timeout, done
    ruTimeout,      \* argument timeout, in seconds
    ruNow,          \* seconds elapsed since the call
    ruLog,          \* the UpdateIP attempts made: branch and result, in order
    ruRet,          \* the value retryUpdateReverseDNS returned
    \* privateNICsHandler and the server's private NICs
    srvNICs,        \* the private networks attached to the server at the API
    phPc,           \* new (no handler yet), ready, failed (construction failed)
    phMap,          \* privateNICsMap's keys: the private networks the handler listed
    phCalls,        \* attach and detach calls made on the handler
    phLast,         \* the last call: its kind, network, request and result
    phSdkErr,       \* the error of the SDK call that failed in the last call
    \* getSnapshotsFromIds
    snPc,           \* position: idle, loop, done
    snIDs,          \* argument snapIDs
    snIdx,          \* index of the ID the loop is at
    snResponses,    \* snapResponses
    snSdkErr,       \* the error of the GetSnapshot call that failed, if any
    snErr,          \* the error getSnapshotsFromIds returned
    \* orderVolumes and sortVolumeServer
    ovVolumes,      \* argument v: index string -> volume
    ovPc,           \* the functions applied so far
    ovOrdered,      \* the slice orderVolumes returned
    svSorted,       \* the slice sortVolumeServer returned
    \* sanitizeVolumeMap
    saHeap,         \* the volume templates allocated: address -> template
    saVolumes,      \* argument volumes: index string -> address
    saPc,           \* input, done
    saM,            \* the map returned: index string -> address
    \* validateLocalVolumeSizes
    vlVolumes,      \* argument volumes: index string -> template
    vlMinSize,      \* serverType.VolumesConstraint.MinSize
    vlMaxSize,      \* serverType.VolumesConstraint.MaxSize
    vlPc,           \* input, done
    vlErr           \* the error returned

reachVars == <<srvState, srvVolumes, rsPc, rsTo, rsFrom, rsVolsLeft,
               rsActions, rsIssued, rsSdkErr, rsErr>>

retryVars == <<ruPc, ruTimeout, ruNow, ruLog, ruRet>>

nicVars == <<srvNICs, phPc, phMap, phCalls, phLast, phSdkErr>>

snapVars == <<snPc, snIDs, snIdx, snResponses, snSdkErr, snErr>>

orderVars == <<ovVolumes, ovPc, ovOrdered, svSorted>>

sanVars == <<saHeap, saVolumes, saPc, saM>>

valVars == <<vlVolumes, vlMinSize, vlMaxSize, vlPc, vlErr>>

vars == <<reachVars, retryVars, nicVars, snapVars, orderVars, sanVars, valVars>>

\* A helper's step leaves the other helpers' variables alone.
ReachOnly == UNCHANGED <<retryVars, nicVars, snapVars, orderVars, sanVars, valVars>>
RetryOnly == UNCHANGED <<reachVars, nicVars, snapVars, orderVars, sanVars, valVars>>
NICOnly == UNCHANGED <<reachVars, retryVars, snapVars, orderVars, sanVars, valVars>>
SnapOnly == UNCHANGED <<reachVars, retryVars, nicVars, orderVars, sanVars, valVars>>
OrderOnly == UNCHANGED <<reachVars, retryVars, nicVars, snapVars, sanVars, valVars>>
SanOnly == UNCHANGED <<reachVars, retryVars, nicVars, snapVars, orderVars, valVars>>
ValOnly == UNCHANGED <<reachVars, retryVars, nicVars, snapVars, orderVars, sanVars>>

-----------------------------------------------------------------------------
(* Errors.  An error value is a record; NoError is Go's nil error.         *)

NoError == [type |-> "nil"]

\* A failure of the vendor API that carries no argument details.
ResponseError == [type |-> "ResponseError"]
TimeoutError == [type |-> "TimeoutError"]

\* fmt.Errorf without %w: a new error holding only a message.
MessageError(msg) == [type |-> "errorString", msg |-> msg]

\* The errors an SDK call of reachState, the NIC handler or GetSnapshot
\* may fail with.
SDKErrors == {ResponseError, TimeoutError}

\* A pointer, or an interface value: None is nil, Some(x) holds x.
None == <<>>
Some(x) == <<x>>

-----------------------------------------------------------------------------
(* reachState                                                              *)

ServerStateRunning == "running"
ServerStateStopped == "stopped"
ServerStateStoppedInPlace == "stopped in place"
ServerStateStarting == "starting"
ServerStateLocked == "locked"

ServerActionPoweron == "poweron"
ServerActionPoweroff == "poweroff"
ServerActionStopInPlace == "stop_in_place"

PowerStates == {ServerStateStopped, ServerStateRunning, ServerStateStoppedInPlace}
ServerStates == PowerStates \cup {ServerStateStarting, ServerStateLocked}

VolumeServerStateAvailable == "available"
VolumeServerStateSnapshotting == "snapshotting"
VolumeStates == {VolumeServerStateAvailable, VolumeServerStateSnapshotting}

\* Largest number of volumes on the modelled server.
MaxServerVolumes == 2

\* transitionMap of reachState, as a set of <<from, to, actions>>.
transitionMapStoppedToStandbySingle ==
    { <<ServerStateStopped, ServerStateRunning, <<ServerActionPoweron>> >>,
      <<ServerStateStopped, ServerStateStoppedInPlace, <<ServerActionPoweron>> >>,
      <<ServerStateRunning, ServerStateStopped, <<ServerActionPoweroff>> >>,
      <<ServerStateRunning, ServerStateStoppedInPlace, <<ServerActionStopInPlace>> >>,
      <<ServerStateStoppedInPlace, ServerStateRunning, <<ServerActionPoweron>> >>,
      <<ServerStateStoppedInPlace, ServerStateStopped,
            <<ServerActionPoweron, ServerActionPoweroff>> >> }

transitionMap ==
    { <<ServerStateStopped, ServerStateRunning, <<ServerActionPoweron>> >>,
      <<ServerStateStopped, ServerStateStoppedInPlace,
            <<ServerActionPoweron, ServerActionStopInPlace>> >>,
      <<ServerStateRunning, ServerStateStopped, <<ServerActionPoweroff>> >>,
      <<ServerStateRunning, ServerStateStoppedInPlace, <<ServerActionStopInPlace>> >>,
      <<ServerStateStoppedInPlace, ServerStateRunning, <<ServerActionPoweron>> >>,
      <<ServerStateStoppedInPlace, ServerStateStopped,
            <<ServerActionPoweron, ServerActionPoweroff>> >> }

transitionExists(from, to) == \E t \in transitionMap : t[1] = from /\ t[2] = to

transitionActions(from, to) ==
    (CHOOSE t \in transitionMap : t[1] = from /\ t[2] = to)[3]

\* The power lifecycle of the API: the states an action is accepted in.
ActionAccepted(state, a) ==
    \/ a = ServerActionPoweron /\ state \in {ServerStateStopped, ServerStateStoppedInPlace}
    \/ a = ServerActionPoweroff /\ state = ServerStateRunning
    \/ a = ServerActionStopInPlace /\ state = ServerStateRunning

\* The state an accepted action leaves the server in.
ActionResult(a) ==
    CASE a = ServerActionPoweron -> ServerStateRunning
      [] a = ServerActionPoweroff -> ServerStateStopped
      [] a = ServerActionStopInPlace -> ServerStateStoppedInPlace

ReachInit ==
    /\ srvState \in ServerStates
    /\ \E n \in 0..MaxServerVolumes : srvVolumes \in [1..n -> VolumeStates]
    /\ rsPc = "idle"
    /\ rsTo = ServerStateStopped
    /\ rsFrom = ServerStateStopped
    /\ rsVolsLeft = {}
    /\ rsActions = <<>>
    /\ rsIssued = <<>>
    /\ rsSdkErr = NoError
    /\ rsErr = NoError

ReachIdle ==
    /\ srvState = ServerStateStopped
    /\ srvVolumes = <<>>
    /\ rsPc = "parked"
    /\ rsTo = ServerStateStopped
    /\ rsFrom = ServerStateStopped
    /\ rsVolsLeft = {}
    /\ rsActions = <<>>
    /\ rsIssued = <<>>
    /\ rsSdkErr = NoError
    /\ rsErr = NoError

\* reachState returns err.
ReachReturn(err) ==
    /\ rsPc' = "done"
    /\ rsErr' = err

\* GetServer fails: the error is returned as it is.
ReachGetServerFails(toState) ==
    /\ rsPc = "idle"
    /\ \E e \in SDKErrors :
        /\ rsSdkErr' = e
        /\ ReachReturn(e)
    /\ rsTo' = toState
    /\ UNCHANGED <<srvState, srvVolumes, rsFrom, rsVolsLeft, rsActions, rsIssued>>
    /\ ReachOnly

\* GetServer succeeds; the server is already in toState.
ReachAlreadyThere(toState) ==
    /\ rsPc = "idle"
    /\ srvState = toState
    /\ rsTo' = toState
    /\ rsFrom' = srvState
    /\ ReachReturn(NoError)
    /\ UNCHANGED <<srvState, srvVolumes, rsVolsLeft, rsActions, rsIssued, rsSdkErr>>
    /\ ReachOnly

\* GetServer succeeds; the transition map has no entry for the pair.
ReachUnknownTransition(toState) ==
    /\ rsPc = "idle"
    /\ srvState # toState
    /\ ~transitionExists(srvState, toState)
    /\ rsTo' = toState
    /\ rsFrom' = srvState
    /\ ReachReturn(MessageError("don't know how to reach state"))
    /\ UNCHANGED <<srvState, srvVolumes, rsVolsLeft, rsActions, rsIssued, rsSdkErr>>
    /\ ReachOnly

\* GetServer succeeds; the actions of the pair are looked up.
ReachStart(toState) ==
    /\ rsPc = "idle"
    /\ srvState # toState
    /\ transitionExists(srvState, toState)
    /\ rsTo' = toState
    /\ rsFrom' = srvState
    /\ rsActions' = transitionActions(srvState, toState)
    /\ rsVolsLeft' = {v \in DOMAIN srvVolumes :
                        srvVolumes[v] # VolumeServerStateAvailable}
    /\ rsPc' = "volumes"
    /\ UNCHANGED <<srvState, srvVolumes, rsIssued, rsSdkErr, rsErr>>
    /\ ReachOnly

\* WaitForVolume on a volume of the response that was not available.
ReachWaitForVolume ==
    /\ rsPc = "volumes"
    /\ \E v \in rsVolsLeft :
        \/ /\ srvVolumes' = [srvVolumes EXCEPT ![v] = VolumeServerStateAvailable]
           /\ rsVolsLeft' = rsVolsLeft \ {v}
           /\ UNCHANGED <<rsPc, rsSdkErr, rsErr>>
        \/ /\ \E e \in SDKErrors :
                /\ rsSdkErr' = e
                /\ ReachReturn(e)
           /\ UNCHANGED <<srvVolumes, rsVolsLeft>>
    /\ UNCHANGED <<srvState, rsTo, rsFrom, rsActions, rsIssued>>
    /\ ReachOnly

\* Every volume is ready: go on to the actions.
ReachVolumesReady ==
    /\ rsPc = "volumes"
    /\ rsVolsLeft = {}
    /\ rsPc' = "actions"
    /\ UNCHANGED <<srvState, srvVolumes, rsTo, rsFrom, rsVolsLeft, rsActions,
                   rsIssued, rsSdkErr, rsErr>>
    /\ ReachOnly

\* ServerActionAndWait on the next action: the API accepts it and the wait
\* ends, or the call fails (the action refused or not sent, or the wait
\* failing after the action was applied).
ReachServerAction ==
    /\ rsPc = "actions"
    /\ rsActions # <<>>
    /\ LET a == Head(rsActions) IN
        \/ /\ ActionAccepted(srvState, a)
           /\ srvState' = ActionResult(a)
           /\ rsIssued' = Append(rsIssued, a)
           /\ rsActions' = Tail(rsActions)
           /\ UNCHANGED <<rsPc, rsSdkErr, rsErr>>
        \/ /\ \E e \in SDKErrors :
                /\ rsSdkErr' = e
                /\ ReachReturn(e)
           /\ \/ UNCHANGED srvState
              \/ ActionAccepted(srvState, a) /\ srvState' = ActionResult(a)
           /\ UNCHANGED <<rsIssued, rsActions>>
    /\ UNCHANGED <<srvVolumes, rsTo, rsFrom, rsVolsLeft>>
    /\ ReachOnly

\* Every action was issued: return nil.
ReachDone ==
    /\ rsPc = "actions"
    /\ rsActions = <<>>
    /\ ReachReturn(NoError)
    /\ UNCHANGED <<srvState, srvVolumes, rsTo, rsFrom, rsVolsLeft, rsActions,
                   rsIssued, rsSdkErr>>
    /\ ReachOnly

\* The caller calls reachState again.
ReachAgain ==
    /\ rsPc = "done"
    /\ rsPc' = "idle"
    /\ rsIssued' = <<>>
    /\ rsSdkErr' = NoError
    /\ rsErr' = NoError
    /\ rsActions' = <<>>
    /\ rsVolsLeft' = {}
    /\ UNCHANGED <<srvState, srvVolumes, rsTo, rsFrom>>
    /\ ReachOnly

ReachNext ==
    \/ \E toState \in ServerStates : ReachGetServerFails(toState)
    \/ \E toState \in ServerStates : ReachAlreadyThere(toState)
    \/ \E toState \in ServerStates : ReachUnknownTransition(toState)
    \/ \E toState \in ServerStates : ReachStart(toState)
    \/ ReachWaitForVolume
    \/ ReachVolumesReady
    \/ ReachServerAction
    \/ ReachDone
    \/ ReachAgain

-----------------------------------------------------------------------------
(* isIPReverseDNSResolveError and retryUpdateReverseDNS                    *)

\* scw.InvalidArgumentsError with one detail per argument name given.
InvalidArgumentsError(argumentNames) ==
    [type |-> "InvalidArgumentsError",
     details |-> [i \in DOMAIN argumentNames |-> [argumentName |-> argumentNames[i]]]]

\* fmt.Errorf with %w: an error that wraps cause.
WrapError(cause) == [type |-> "wrapError", cause |-> cause]

\* What UpdateIP may return.
UpdateIPResults ==
    { NoError,
      InvalidArgumentsError(<<"reverse">>),
      InvalidArgumentsError(<<"ip_id">>),
      InvalidArgumentsError(<<"ip_id", "reverse">>),
      WrapError(InvalidArgumentsError(<<"reverse">>)),
      ResponseError }

\* errors.As(err, &invalidArgError): the first InvalidArgumentsError of err's
\* chain, or NoError when the chain has none.
RECURSIVE AsInvalidArgumentsError(_)
AsInvalidArgumentsError(err) ==
    IF err.type = "InvalidArgumentsError" THEN err
    ELSE IF "cause" \in DOMAIN err THEN AsInvalidArgumentsError(err.cause)
    ELSE NoError

isIPReverseDNSResolveErrorAnyArgument(err) ==
    AsInvalidArgumentsError(err) # NoError

isIPReverseDNSResolveError(err) ==
    LET invalidArgError == AsInvalidArgumentsError(err) IN
    IF invalidArgError = NoError THEN FALSE
    ELSE \E i \in DOMAIN invalidArgError.details :
            invalidArgError.details[i].argumentName = "reverse"

\* Seconds between two attempts.
defaultInstanceRetryInterval == 5

\* Largest timeout passed, in seconds.
MaxTimeout == 16

\* Longest UpdateIP call, in seconds.
MaxCallDuration == 2

\* The attempt of the interval case is retried.
IntervalAttemptRetried(err) == err # NoError /\ isIPReverseDNSResolveError(err)

TimeoutAttemptRetriedLikeInterval(err) == IntervalAttemptRetried(err)

\* The attempt of the timeout case is never retried.
TimeoutAttemptRetried(err) == FALSE

RetryInit ==
    /\ ruPc = "idle"
    /\ ruTimeout = 0
    /\ ruNow = 0
    /\ ruLog = <<>>
    /\ ruRet = NoError

RetryIdle ==
    /\ ruPc = "parked"
    /\ ruTimeout = 0
    /\ ruNow = 0
    /\ ruLog = <<>>
    /\ ruRet = NoError

\* The call: timeoutChannel is armed and the loop entered.
RetryCall(timeout) ==
    /\ ruPc = "idle"
    /\ ruTimeout' = timeout
    /\ ruPc' = "select"
    /\ UNCHANGED <<ruNow, ruLog, ruRet>>
    /\ RetryOnly

\* select: the retry interval's timer, armed on entering the select, fires
\* no later than timeoutChannel.
RetrySelectInterval ==
    /\ ruPc = "select"
    /\ ruNow + defaultInstanceRetryInterval <= ruTimeout
    /\ ruNow' = ruNow + defaultInstanceRetryInterval
    /\ ruPc' = "interval"
    /\ UNCHANGED <<ruTimeout, ruLog, ruRet>>
    /\ RetryOnly

\* select: timeoutChannel has fired, or fires no later than the interval's
\* timer.
RetrySelectTimeout ==
    /\ ruPc = "select"
    /\ ruTimeout <= ruNow + defaultInstanceRetryInterval
    /\ ruNow' = IF ruTimeout > ruNow THEN ruTimeout ELSE ruNow
    /\ ruPc' = "timeout"
    /\ UNCHANGED <<ruTimeout, ruLog, ruRet>>
    /\ RetryOnly

\* The UpdateIP attempt of the interval case.
RetryIntervalAttempt ==
    /\ ruPc = "interval"
    /\ \E err \in UpdateIPResults, d \in 0..MaxCallDuration :
        /\ ruNow' = ruNow + d
        /\ ruLog' = Append(ruLog, [branch |-> "interval", err |-> err])
        /\ IF IntervalAttemptRetried(err)
             THEN ruPc' = "select" /\ UNCHANGED ruRet
             ELSE ruPc' = "done" /\ ruRet' = err
    /\ UNCHANGED ruTimeout
    /\ RetryOnly

\* The UpdateIP attempt of the timeout case.
RetryTimeoutAttempt ==
    /\ ruPc = "timeout"
    /\ \E err \in UpdateIPResults, d \in 0..MaxCallDuration :
        /\ ruNow' = ruNow + d
        /\ ruLog' = Append(ruLog, [branch |-> "timeout", err |-> err])
        /\ IF TimeoutAttemptRetried(err)
             THEN ruPc' = "select" /\ UNCHANGED ruRet
             ELSE ruPc' = "done" /\ ruRet' = err
    /\ UNCHANGED ruTimeout
    /\ RetryOnly

RetryNext ==
    \/ \E timeout \in 0..MaxTimeout : RetryCall(timeout)
    \/ RetrySelectInterval
    \/ RetrySelectTimeout
    \/ RetryIntervalAttempt
    \/ RetryTimeoutAttempt

-----------------------------------------------------------------------------
(* Identifiers.  An ID is the sequence of its "/"-separated parts:          *)
(* <<"fr-par-1", "pn-a">> is "fr-par-1/pn-a", <<>> is the empty string.    *)

\* expandID: the ID without its locality.
expandID(id) == IF Len(id) = 2 THEN <<id[2]>> ELSE id

\* expandStringPtr: nil for nil and for the empty string.
expandStringPtr(data) == IF data = None \/ data = Some(<<>>) THEN None ELSE data

\* parseZonedID succeeds on zone/id only.
parseZonedIDFails(id) == Len(id) # 2

-----------------------------------------------------------------------------
(* privateNICsHandler                                                      *)

\* The private networks of the model, as expanded IDs.
PrivateNetworks == {<<"pn-a">>, <<"pn-b">>}

\* What a caller passes to attach and detach.
HandlerArguments ==
    {None, Some(<<>>), Some(<<"fr-par-1", "pn-a">>), Some(<<"pn-b">>)}

\* Largest number of attach and detach calls on one handler.
MaxHandlerCalls == 3

NoCall == [op |-> "none"]

NICInit ==
    /\ srvNICs \in SUBSET PrivateNetworks
    /\ phPc = "new"
    /\ phMap = {}
    /\ phCalls = 0
    /\ phLast = NoCall
    /\ phSdkErr = NoError

NICIdle ==
    /\ srvNICs = {}
    /\ phPc = "parked"
    /\ phMap = {}
    /\ phCalls = 0
    /\ phLast = NoCall
    /\ phSdkErr = NoError

\* The record of a call: the network it was about (<<>> when the argument
\* named none), whether that network was attached to the server when the
\* call began, the request it issued ("none" when it issued none) and the
\* error it returned.
CallRecord(op, pn, request, err) ==
    [op |-> op, pn |-> pn, attached |-> pn \in srvNICs,
     request |-> request, err |-> err]

\* newPrivateNICHandler: flatPrivateNICs lists the server's private NICs
\* into privateNICsMap, or returns the error of ListPrivateNICs.
NewPrivateNICHandler ==
    /\ phPc = "new"
    /\ \/ /\ phMap' = srvNICs
          /\ phPc' = "ready"
          /\ phLast' = CallRecord("flatPrivateNICs", <<>>, "ListPrivateNICs", NoError)
          /\ UNCHANGED phSdkErr
       \/ \E e \in SDKErrors :
          /\ phSdkErr' = e
          /\ phPc' = "failed"
          /\ phLast' = CallRecord("flatPrivateNICs", <<>>, "ListPrivateNICs", e)
          /\ UNCHANGED phMap
    /\ UNCHANGED <<srvNICs, phCalls>>
    /\ NICOnly

\* attach finds the network in privateNICsMap.
attachSkips(privateNetworkID) == privateNetworkID \in phMap

\* attach(n): nothing for a nil n or a network of privateNICsMap; otherwise
\* CreatePrivateNIC, then the waits for the NIC and for its MAC address.  The
\* first call that fails ends attach with its error.
Attach(n) ==
    /\ phPc = "ready"
    /\ phCalls < MaxHandlerCalls
    /\ phCalls' = phCalls + 1
    /\ LET nPtr == expandStringPtr(n)
           privateNetworkID == expandID(nPtr[1])
       IN  IF nPtr = None
             THEN /\ phLast' = CallRecord("attach", <<>>, "none", NoError)
                  /\ phSdkErr' = NoError
                  /\ UNCHANGED srvNICs
           ELSE IF attachSkips(privateNetworkID)
             THEN /\ phLast' = CallRecord("attach", privateNetworkID, "none", NoError)
                  /\ phSdkErr' = NoError
                  /\ UNCHANGED srvNICs
           ELSE \/ \* CreatePrivateNIC fails
                   \E e \in SDKErrors :
                   /\ phLast' = CallRecord("attach", privateNetworkID,
                                           "CreatePrivateNIC", e)
                   /\ phSdkErr' = e
                   /\ UNCHANGED srvNICs
                \/ \* CreatePrivateNIC succeeds; one of the two waits fails
                   \E e \in SDKErrors :
                   /\ phLast' = CallRecord("attach", privateNetworkID,
                                           "CreatePrivateNIC", e)
                   /\ phSdkErr' = e
                   /\ srvNICs' = srvNICs \cup {privateNetworkID}
                \/ \* every call succeeds
                   /\ phLast' = CallRecord("attach", privateNetworkID,
                                           "CreatePrivateNIC", NoError)
                   /\ phSdkErr' = NoError
                   /\ srvNICs' = srvNICs \cup {privateNetworkID}
    /\ UNCHANGED <<phPc, phMap>>
    /\ NICOnly

\* detach(o): nothing for a nil or empty o or a network that is not in
\* privateNICsMap; otherwise the wait for the NIC, which fails when the
\* server no longer has it, then DeletePrivateNIC.
Detach(o) ==
    /\ phPc = "ready"
    /\ phCalls < MaxHandlerCalls
    /\ phCalls' = phCalls + 1
    /\ LET oPtr == expandStringPtr(o)
           idPN == expandID(oPtr[1])
       IN  IF oPtr = None \/ Len(oPtr[1]) = 0
             THEN /\ phLast' = CallRecord("detach", <<>>, "none", NoError)
                  /\ phSdkErr' = NoError
                  /\ UNCHANGED srvNICs
           ELSE IF idPN \notin phMap
             THEN /\ phLast' = CallRecord("detach", idPN, "none", NoError)
                  /\ phSdkErr' = NoError
                  /\ UNCHANGED srvNICs
           ELSE \/ \* waitForPrivateNIC fails
                   \E e \in SDKErrors :
                   /\ phLast' = CallRecord("detach", idPN, "none", e)
                   /\ phSdkErr' = e
                   /\ UNCHANGED srvNICs
                \/ \* the NIC is there; DeletePrivateNIC fails
                   \E e \in SDKErrors :
                   /\ idPN \in srvNICs
                   /\ phLast' = CallRecord("detach", idPN, "DeletePrivateNIC", e)
                   /\ phSdkErr' = e
                   /\ UNCHANGED srvNICs
                \/ \* the NIC is there and is deleted
                   /\ idPN \in srvNICs
                   /\ phLast' = CallRecord("detach", idPN, "DeletePrivateNIC", NoError)
                   /\ phSdkErr' = NoError
                   /\ srvNICs' = srvNICs \ {idPN}
    /\ UNCHANGED <<phPc, phMap>>
    /\ NICOnly

NICNext ==
    \/ NewPrivateNICHandler
    \/ \E n \in HandlerArguments : Attach(n)
    \/ \E o \in HandlerArguments : Detach(o)

-----------------------------------------------------------------------------
(* getSnapshotsFromIds                                                     *)

\* The snapshot IDs of the model; the last one has no zone.
SnapshotIDs == {<<"fr-par-1", "snap-a">>, <<"nl-ams-1", "snap-b">>, <<"snap-c">>}

\* Largest number of snapshot IDs passed.
MaxSnapshotIDs == 3

SnapInit ==
    /\ snPc = "idle"
    /\ snIDs = <<>>
    /\ snIdx = 1
    /\ snResponses = <<>>
    /\ snSdkErr = NoError
    /\ snErr = NoError

SnapIdle ==
    /\ snPc = "parked"
    /\ snIDs = <<>>
    /\ snIdx = 1
    /\ snResponses = <<>>
    /\ snSdkErr = NoError
    /\ snErr = NoError

SnapCall(snapIDs) ==
    /\ snPc = "idle"
    /\ snIDs' = snapIDs
    /\ snPc' = "loop"
    /\ UNCHANGED <<snIdx, snResponses, snSdkErr, snErr>>
    /\ SnapOnly

\* The error returned when GetSnapshot fails with err.
snapshotLookupError(err) ==
    MessageError("extra volumes : could not find snapshot with id")

\* One turn of the loop: parseZonedID, then GetSnapshot.
SnapLookup ==
    /\ snPc = "loop"
    /\ snIdx <= Len(snIDs)
    /\ LET snapID == snIDs[snIdx] IN
       IF parseZonedIDFails(snapID)
         THEN /\ snErr' = MessageError("can't parse zoned id")
              /\ snResponses' = <<>>
              /\ snPc' = "done"
              /\ UNCHANGED <<snIdx, snSdkErr>>
         ELSE \/ /\ snResponses' = Append(snResponses, snapID[2])
                 /\ snIdx' = snIdx + 1
                 /\ UNCHANGED <<snPc, snSdkErr, snErr>>
              \/ \E e \in SDKErrors :
                 /\ snSdkErr' = e
                 /\ snErr' = snapshotLookupError(e)
                 /\ snPc' = "done"
                 /\ UNCHANGED <<snIdx, snResponses>>
    /\ UNCHANGED snIDs
    /\ SnapOnly

\* The loop is over: the responses are returned with a nil error.
SnapReturn ==
    /\ snPc = "loop"
    /\ snIdx > Len(snIDs)
    /\ snPc' = "done"
    /\ UNCHANGED <<snIDs, snIdx, snResponses, snSdkErr, snErr>>
    /\ SnapOnly

SnapNext ==
    \/ \E n \in 0..MaxSnapshotIDs : \E snapIDs \in [1..n -> SnapshotIDs] : SnapCall(snapIDs)
    \/ SnapLookup
    \/ SnapReturn

-----------------------------------------------------------------------------
(* Volume maps.  A map key is a string of decimal digits, modelled as the  *)
(* sequence of its digits: <<1, 0>> is "10".                               *)

\* strconv.Itoa for n >= 0.
RECURSIVE Itoa(_)
Itoa(n) == IF n < 10 THEN <<n>> ELSE Append(Itoa(n \div 10), n % 10)

\* Go's < on strings: byte by byte, a proper prefix first.
RECURSIVE StringLess(_, _)
StringLess(a, b) ==
    IF a = <<>> THEN b # <<>>
    ELSE IF b = <<>> THEN FALSE
    ELSE IF a[1] # b[1] THEN a[1] < b[1]
    ELSE StringLess(Tail(a), Tail(b))

\* sort.Strings on the strings of set S.
RECURSIVE sortStrings(_)
sortStrings(S) ==
    IF S = {} THEN <<>>
    ELSE LET least == CHOOSE x \in S : \A y \in S \ {x} : StringLess(x, y)
         IN  <<least>> \o sortStrings(S \ {least})

-----------------------------------------------------------------------------
(* orderVolumes and sortVolumeServer                                       *)

\* Largest number of volumes in a map passed to the two functions.
MaxVolumes == 11

\* The volumes the maps hold, by name.
VolumeNames == {"vol-x", "vol-y"}

orderVolumes(v) ==
    LET indexes == sortStrings(DOMAIN v)
    IN  [i \in 1..Len(indexes) |-> v[indexes[i]]]

sortVolumeServer(v) ==
    LET indexes == sortStrings(DOMAIN v)
    IN  [i \in 1..Len(indexes) |-> v[indexes[i]]]

\* The maps whose keys are the indexes 0..n-1.
IndexedMaps(n) == [{Itoa(i) : i \in 0..(n - 1)} -> VolumeNames]

OrderInit ==
    /\ \E n \in 0..MaxVolumes : ovVolumes \in IndexedMaps(n)
    /\ ovPc = {}
    /\ ovOrdered = <<>>
    /\ svSorted = <<>>

OrderIdle ==
    /\ ovVolumes = <<>>
    /\ ovPc = {"parked"}
    /\ ovOrdered = <<>>
    /\ svSorted = <<>>

OrderVolumes ==
    /\ "parked" \notin ovPc
    /\ "orderVolumes" \notin ovPc
    /\ ovOrdered' = orderVolumes(ovVolumes)
    /\ ovPc' = ovPc \cup {"orderVolumes"}
    /\ UNCHANGED <<ovVolumes, svSorted>>
    /\ OrderOnly

SortVolumeServer ==
    /\ "parked" \notin ovPc
    /\ "sortVolumeServer" \notin ovPc
    /\ svSorted' = sortVolumeServer(ovVolumes)
    /\ ovPc' = ovPc \cup {"sortVolumeServer"}
    /\ UNCHANGED <<ovVolumes, ovOrdered>>
    /\ OrderOnly

OrderNext ==
    \/ OrderVolumes
    \/ SortVolumeServer

-----------------------------------------------------------------------------
(* sanitizeVolumeMap.  The map holds pointers: a template lives at an       *)
(* address of saHeap, and a new template is allocated at the next one.      *)

VolumeVolumeTypeLSSD == "l_ssd"
VolumeVolumeTypeBSSD == "b_ssd"

\* The index strings of the modelled maps.
RootIndex == Itoa(0)
VolumeIndexes == {Itoa(0), Itoa(1)}

\* instance.VolumeServerTemplate: ID, Name, Boot and Size are pointers, an
\* unset VolumeType is the empty string.
VolumeServerTemplate(id, name, boot, volumeType, size) ==
    [ID |-> id, Name |-> name, Boot |-> boot, VolumeType |-> volumeType,
     Size |-> size]

\* Largest size of a template passed to sanitizeVolumeMap.
MaxTemplateSize == 1

VolumeServerTemplates ==
    { VolumeServerTemplate(id, name, boot, volumeType, size) :
        id \in {None, Some("vol-1")},
        name \in {None, Some("data")},
        boot \in {None, Some(TRUE)},
        volumeType \in {"", VolumeVolumeTypeLSSD, VolumeVolumeTypeBSSD},
        size \in {None} \cup {Some(n) : n \in 0..MaxTemplateSize} }

\* What one turn of the loop stores for template v at index: a new template
\* or v itself.
sanitizedRootFirst(index, v) ==
    IF index = RootIndex /\ v.Size = None
      THEN [new |-> TRUE,
            v |-> VolumeServerTemplate(None, None, v.Boot, v.VolumeType, None)]
    ELSE IF v.ID # None
      THEN [new |-> TRUE,
            v |-> VolumeServerTemplate(v.ID, v.Name, v.Boot, "", None)]
    ELSE [new |-> FALSE, v |-> v]

sanitized(index, v) ==
    IF v.ID # None
      THEN [new |-> TRUE,
            v |-> VolumeServerTemplate(v.ID, v.Name, v.Boot, "", None)]
    ELSE IF index = RootIndex /\ v.Size = None
      THEN [new |-> TRUE,
            v |-> VolumeServerTemplate(None, None, v.Boot, v.VolumeType, None)]
    ELSE [new |-> FALSE, v |-> v]

\* The loop of sanitizeVolumeMap over the indexes left, from heap and the map
\* m built so far.  The order of a Go map's keys decides only the addresses.
RECURSIVE sanitizeLoop(_, _, _, _)
sanitizeLoop(heap, volumes, m, left) ==
    IF left = {} THEN [heap |-> heap, m |-> m]
    ELSE LET index == CHOOSE k \in left : TRUE
             s == sanitized(index, heap[volumes[index]])
             heap2 == IF s.new THEN Append(heap, s.v) ELSE heap
             addr == IF s.new THEN Len(heap2) ELSE volumes[index]
             m2 == [k \in DOMAIN m \cup {index} |->
                        IF k = index THEN addr ELSE m[k]]
         IN  sanitizeLoop(heap2, volumes, m2, left \ {index})

sanitizeVolumeMap(heap, volumes) ==
    sanitizeLoop(heap, volumes, <<>>, DOMAIN volumes)

SanInit ==
    /\ \E keys \in SUBSET VolumeIndexes :
        \E vs \in [keys -> VolumeServerTemplates] :
            LET order == sortStrings(keys) IN
            /\ saHeap = [a \in 1..Len(order) |-> vs[order[a]]]
            /\ saVolumes = [k \in keys |->
                              CHOOSE a \in 1..Len(order) : order[a] = k]
    /\ saPc = "input"
    /\ saM = <<>>

SanIdle ==
    /\ saHeap = <<>>
    /\ saVolumes = <<>>
    /\ saPc = "parked"
    /\ saM = <<>>

SanitizeVolumeMap ==
    /\ saPc = "input"
    /\ LET r == sanitizeVolumeMap(saHeap, saVolumes) IN
        /\ saHeap' = r.heap
        /\ saM' = r.m
    /\ saPc' = "done"
    /\ UNCHANGED saVolumes
    /\ SanOnly

SanNext == SanitizeVolumeMap

-----------------------------------------------------------------------------
(* validateLocalVolumeSizes.  A size is counted in units of 2^60 bytes, so  *)
(* that scw.Size, a uint64, holds the sizes 0..15 and wraps at 16.          *)

\* 2^64 bytes, in units of 2^60 bytes.
SizeModulus == 16

\* Largest MinSize and MaxSize of a server type, in the same unit.
MaxConstraintSize == 3

\* The templates as far as validateLocalVolumeSizes reads them.
SizedTemplates ==
    { VolumeServerTemplate(None, None, None, volumeType, size) :
        volumeType \in {VolumeVolumeTypeLSSD, VolumeVolumeTypeBSSD},
        size \in {None} \cup {Some(n) : n \in 0..(SizeModulus - 1)} }

\* The loop over the map: the sizes of the l_ssd volumes added in uint64.
RECURSIVE localVolumeTotalSize(_, _)
localVolumeTotalSize(volumes, left) ==
    IF left = {} THEN 0
    ELSE LET index == CHOOSE k \in left : TRUE
             volume == volumes[index]
             rest == localVolumeTotalSize(volumes, left \ {index})
         IN  IF volume.VolumeType = VolumeVolumeTypeLSSD /\ volume.Size # None
               THEN (rest + volume.Size[1]) % SizeModulus
               ELSE rest

validateLocalVolumeSizes(volumes, minSize, maxSize) ==
    LET sum == localVolumeTotalSize(volumes, DOMAIN volumes)
        total == IF RootIndex \notin DOMAIN volumes
                   THEN (sum + minSize) % SizeModulus
                   ELSE sum
    IN  IF total < minSize \/ total > maxSize
          THEN IF minSize = maxSize
                 THEN MessageError("total local volume size must be equal to")
                 ELSE MessageError("total local volume size must be between")
          ELSE NoError

ValInit ==
    /\ \E keys \in SUBSET VolumeIndexes : vlVolumes \in [keys -> SizedTemplates]
    /\ vlMinSize \in 0..MaxConstraintSize
    /\ vlMaxSize \in vlMinSize..MaxConstraintSize
    /\ vlPc = "input"
    /\ vlErr = NoError

ValIdle ==
    /\ vlVolumes = <<>>
    /\ vlMinSize = 0
    /\ vlMaxSize = 0
    /\ vlPc = "parked"
    /\ vlErr = NoError

ValidateLocalVolumeSizes ==
    /\ vlPc = "input"
    /\ vlErr' = validateLocalVolumeSizes(vlVolumes, vlMinSize, vlMaxSize)
    /\ vlPc' = "done"
    /\ UNCHANGED <<vlVolumes, vlMinSize, vlMaxSize>>
    /\ ValOnly

ValNext == ValidateLocalVolumeSizes

-----------------------------------------------------------------------------
(* Specifications                                                          *)

InitReach ==
    ReachInit /\ RetryIdle /\ NICIdle /\ SnapIdle /\ OrderIdle /\ SanIdle /\ ValIdle

SpecReach == InitReach /\ [][ReachNext]_vars

InitRetry ==
    RetryInit /\ ReachIdle /\ NICIdle /\ SnapIdle /\ OrderIdle /\ SanIdle /\ ValIdle

SpecRetry == InitRetry /\ [][RetryNext]_vars

\* The timers fire and UpdateIP returns: the loop is never stopped midway.
SpecRetryFair == SpecRetry /\ WF_vars(RetryNext)

InitNIC ==
    NICInit /\ ReachIdle /\ RetryIdle /\ SnapIdle /\ OrderIdle /\ SanIdle /\ ValIdle

SpecNIC == InitNIC /\ [][NICNext]_vars

InitSnap ==
    SnapInit /\ ReachIdle /\ RetryIdle /\ NICIdle /\ OrderIdle /\ SanIdle /\ ValIdle

SpecSnap == InitSnap /\ [][SnapNext]_vars

InitOrder ==
    OrderInit /\ ReachIdle /\ RetryIdle /\ NICIdle /\ SnapIdle /\ SanIdle /\ ValIdle

SpecOrder == InitOrder /\ [][OrderNext]_vars

InitSan ==
    SanInit /\ ReachIdle /\ RetryIdle /\ NICIdle /\ SnapIdle /\ OrderIdle /\ ValIdle

SpecSan == InitSan /\ [][SanNext]_vars

InitVal ==
    ValInit /\ ReachIdle /\ RetryIdle /\ NICIdle /\ SnapIdle /\ OrderIdle /\ SanIdle

SpecVal == InitVal /\ [][ValNext]_vars

-----------------------------------------------------------------------------
(* Claims                                                                  *)

\* C1: when reachState returns nil for a pair of distinct states among
\* stopped, running and stopped in place, the actions it issued, applied in
\* order by a server that obeys the power lifecycle, are those of the
\* transition map and have left the server in toState.
ReachStateReachesToState ==
    (/\ rsPc = "done"
     /\ rsErr = NoError
     /\ rsFrom \in PowerStates
     /\ rsTo \in PowerStates
     /\ rsFrom # rsTo)
        => srvState = rsTo /\ rsIssued # <<>>

\* C1 witness: a stopped server was brought to stopped in place by two
\* actions.
ReachStateTwoActionsDone ==
    /\ rsPc = "done"
    /\ rsErr = NoError
    /\ rsFrom = ServerStateStopped
    /\ rsTo = ServerStateStoppedInPlace
    /\ rsIssued = <<ServerActionPoweron, ServerActionStopInPlace>>
    /\ srvState = ServerStateStoppedInPlace

\* The error is an InvalidArgumentsError (possibly wrapped) with a detail
\* whose argument name is "reverse".
IsReverseArgumentError(err) ==
    LET e == IF err.type = "wrapError" THEN err.cause ELSE err IN
    /\ e.type = "InvalidArgumentsError"
    /\ \E i \in DOMAIN e.details : e.details[i].argumentName = "reverse"

\* C2: an attempt of the interval case is followed by another attempt if and
\* only if it failed with the reverse DNS validation error; the first
\* attempt of another outcome is the last one, and its result is returned.
RetryOnlyResolveError ==
    /\ \A i \in 1..Len(ruLog) :
        /\ i < Len(ruLog) =>
              ruLog[i].branch = "interval" /\ IsReverseArgumentError(ruLog[i].err)
        /\ (ruLog[i].branch = "interval" /\ i = Len(ruLog)) =>
              IF IsReverseArgumentError(ruLog[i].err)
                THEN ruPc \in {"select", "interval", "timeout"}
                ELSE ruPc = "done" /\ ruRet = ruLog[i].err
    /\ ruPc = "done" => ruLog # <<>> /\ ruRet = ruLog[Len(ruLog)].err

\* C2 witness: two attempts were retried and a third one, of the interval
\* case, failed with another error, which was returned.
RetryEndedByOtherError ==
    /\ ruPc = "done"
    /\ Len(ruLog) = 3
    /\ ruLog[3].branch = "interval"
    /\ ruRet = InvalidArgumentsError(<<"ip_id">>)

\* The safety half of C3: the attempt of the timeout case is the last one,
\* its result is returned, and no return comes before an attempt.
RetryTimeoutAttemptIsLast ==
    /\ \A i \in 1..Len(ruLog) :
        ruLog[i].branch = "timeout" =>
            i = Len(ruLog) /\ ruPc = "done" /\ ruRet = ruLog[i].err
    /\ ruPc = "done" => Len(ruLog) >= 1

\* C3: retryUpdateReverseDNS returns in every execution, after at least one
\* UpdateIP call; the call made once the timeout fired is the last one and
\* its result is returned, a resolve error included.
RetryAlwaysTerminates ==
    /\ <>(ruPc = "done")
    /\ []RetryTimeoutAttemptIsLast

\* C3 witness: every attempt failed with the resolve error, the last one in
\* the timeout case, and that error was returned.
RetryGaveUpAtTimeout ==
    /\ ruPc = "done"
    /\ Len(ruLog) = 3
    /\ \A i \in 1..3 : ruLog[i].err = InvalidArgumentsError(<<"reverse">>)
    /\ ruLog[3].branch = "timeout"
    /\ ruRet = InvalidArgumentsError(<<"reverse">>)

\* The slice has one element per key, the element at position i being the
\* map's value for the key of index i.
InIndexOrder(v, slice) ==
    /\ Len(slice) = Cardinality(DOMAIN v)
    /\ \A i \in 0..(Cardinality(DOMAIN v) - 1) : slice[i + 1] = v[Itoa(i)]

\* C4: for every map whose keys are the decimal indexes 0..n-1, orderVolumes
\* and sortVolumeServer return the n values in increasing numeric index
\* order, also when n exceeds 10.
VolumesInIndexOrder ==
    /\ "orderVolumes" \in ovPc => InIndexOrder(ovVolumes, ovOrdered)
    /\ "sortVolumeServer" \in ovPc => InIndexOrder(ovVolumes, svSorted)

\* C5: sanitizeVolumeMap returns a map with the keys of its input; at every
\* key, the output for a volume with an ID carries only its ID, Name and
\* Boot; a volume with no ID that is not a root volume without size is
\* passed through as it is; the input map and its volumes are not modified.
SanitizeDropsTypeOfExistingVolumes ==
    [][(saPc = "input" /\ saPc' = "done") =>
        /\ DOMAIN saM' = DOMAIN saVolumes
        /\ \A k \in DOMAIN saVolumes :
            LET in == saHeap[saVolumes[k]]
                out == saHeap'[saM'[k]]
            IN  /\ in.ID # None =>
                    out = VolumeServerTemplate(in.ID, in.Name, in.Boot, "", None)
                /\ (in.ID = None /\ ~(k = RootIndex /\ in.Size = None)) =>
                    saM'[k] = saVolumes[k] /\ out = in
        /\ saVolumes' = saVolumes
        /\ \A a \in DOMAIN saHeap : saHeap'[a] = saHeap[a]]_vars

\* C5 witness: a root volume with an ID and no size came out with its ID,
\* name and boot flag only, beside a second volume passed through.
SanitizedExistingRootVolume ==
    /\ saPc = "done"
    /\ DOMAIN saVolumes = VolumeIndexes
    /\ saHeap[saVolumes[RootIndex]] =
         VolumeServerTemplate(Some("vol-1"), Some("data"), Some(TRUE),
                              VolumeVolumeTypeLSSD, None)
    /\ saHeap[saM[RootIndex]] =
         VolumeServerTemplate(Some("vol-1"), Some("data"), Some(TRUE), "", None)
    /\ saHeap[saVolumes[Itoa(1)]].ID = None
    /\ saM[Itoa(1)] = saVolumes[Itoa(1)]

\* C6: for the volume at index "0" with no ID, a size of 0 (unset, or set to
\* zero) is not passed on: the output volume carries only the volume type
\* and the boot flag.
RootSizeZeroNotPassed ==
    (/\ saPc = "done"
     /\ RootIndex \in DOMAIN saVolumes
     /\ saHeap[saVolumes[RootIndex]].ID = None
     /\ saHeap[saVolumes[RootIndex]].Size \in {None, Some(0)})
        => saHeap[saM[RootIndex]] =
             VolumeServerTemplate(None, None, saHeap[saVolumes[RootIndex]].Boot,
                                  saHeap[saVolumes[RootIndex]].VolumeType, None)

\* The sum of the sizes of the l_ssd volumes, as a number.
RECURSIVE SumOfLocalSizes(_, _)
SumOfLocalSizes(volumes, left) ==
    IF left = {} THEN 0
    ELSE LET index == CHOOSE k \in left : TRUE
             volume == volumes[index]
         IN  SumOfLocalSizes(volumes, left \ {index})
             + (IF volume.VolumeType = VolumeVolumeTypeLSSD /\ volume.Size # None
                  THEN volume.Size[1] ELSE 0)

\* C7: validateLocalVolumeSizes returns nil if and only if the sum of the
\* sizes of the l_ssd volumes, plus MinSize when the map has no key "0", is
\* at least MinSize and at most MaxSize; the error says 'must be equal to'
\* when MinSize equals MaxSize and 'must be between' otherwise.
ValidatesTotalLocalSize ==
    vlPc = "done" =>
        LET total == SumOfLocalSizes(vlVolumes, DOMAIN vlVolumes)
                     + (IF RootIndex \in DOMAIN vlVolumes THEN 0 ELSE vlMinSize)
        IN  /\ vlErr = NoError <=> (vlMinSize <= total /\ total <= vlMaxSize)
            /\ vlErr # NoError =>
                 vlErr = (IF vlMinSize = vlMaxSize
                            THEN MessageError("total local volume size must be equal to")
                            ELSE MessageError("total local volume size must be between"))

\* ret is the SDK's error e, or wraps it.
Carries(ret, e) ==
    \/ ret = e
    \/ "cause" \in DOMAIN ret /\ ret.cause = e

\* An SDK call of reachState failed: reachState stopped and returned an
\* error that is or carries the SDK's.
ReachErrorsPassedThrough ==
    rsSdkErr # NoError => rsPc = "done" /\ Carries(rsErr, rsSdkErr)

\* The same for flatPrivateNICs, attach and detach.
NICErrorsPassedThrough ==
    phSdkErr # NoError => Carries(phLast.err, phSdkErr)

\* The same for getSnapshotsFromIds.
SnapErrorsPassedThrough ==
    snSdkErr # NoError => snPc = "done" /\ Carries(snErr, snSdkErr)

\* The same for the attempt of retryUpdateReverseDNS that was not retried.
RetryErrorsPassedThrough ==
    (ruPc = "done" /\ ruLog # <<>> /\ ruLog[Len(ruLog)].err # NoError)
        => Carries(ruRet, ruLog[Len(ruLog)].err)

\* C8: whenever an SDK call made by reachState, attach, detach,
\* flatPrivateNICs, getSnapshotsFromIds or a non-retried attempt of
\* retryUpdateReverseDNS fails, the helper stops and returns an error that
\* is, or carries, the SDK's error.
ErrorsPassedThrough ==
    /\ ReachErrorsPassedThrough
    /\ NICErrorsPassedThrough
    /\ SnapErrorsPassedThrough
    /\ RetryErrorsPassedThrough

\* C9: across any sequence of attach and detach calls on one handler, attach
\* issues CreatePrivateNIC only for a network that is not attached to the
\* server and is a no-op returning nil for one that is; detach issues
\* DeletePrivateNIC only for a network that is attached to the server and is
\* a no-op returning nil for one that is not.
HandlerAgreesWithServer ==
    /\ phLast.op = "attach" =>
        /\ phLast.request = "CreatePrivateNIC" => ~phLast.attached
        /\ phLast.attached => phLast.request = "none" /\ phLast.err = NoError
    /\ phLast.op = "detach" =>
        /\ phLast.request = "DeletePrivateNIC" => phLast.attached
        /\ ~phLast.attached => phLast.request = "none" /\ phLast.err = NoError

=============================================================================
